---- MODULE Spec2Model ----
(***************************************************************************)
(* Artifact I/O and configuration loading of src/utils.py:                 *)
(* save_dataframe_to_csv, save_dict_to_excel, read_config,                 *)
(* export_to_pickle and load_pickle_object, over a filesystem of           *)
(* directories and regular files.                                          *)
(*                                                                         *)
(* A path is a sequence of components; a component (a file or directory    *)
(* name) is a sequence of tokens, so that "report.pickle.bak" is           *)
(* <<"report", ".pickle", ".bak">> and the suffix tests of the code        *)
(* (str.endswith, the `in` operator) are computed on the name itself.      *)
(***************************************************************************)
EXTENDS Naturals, Sequences, FiniteSets

VARIABLES fs,          \* the filesystem: [dirs: set of paths, files: path -> content]
          cwd,         \* os.getcwd()
          call,        \* the last operation performed and its arguments
          ret,         \* what that operation returned
          exc,         \* what that operation raised (type "none": nothing)
          exported,    \* history: path -> object last pickled there by export_to_pickle
          configSeen,  \* history: path -> outcome of the last read_config of that path
          job,         \* concurrent exports: the call both callers make
          pc,          \* concurrent exports: each caller's position
          writeOrder   \* concurrent exports: callers in the order their writes happened

vars == <<fs, cwd, call, ret, exc, exported, configSeen, job, pc, writeOrder>>

(***************************************************************************)
(* Bounds and input sets                                                   *)
(***************************************************************************)
MaxFiles == 2

Stem == "report"

Dir(s) == <<s>>

Folders == { <<Dir("out")>>, <<Dir("out"), Dir("run1")>> }

Cwds == { <<Dir("proj"), Dir("nb")>>, <<Dir("alt"), Dir("nb")>> }

TableNames(ext) ==
    LET base == { <<Stem>>, <<Stem, ext>> }
    IN  base \cup { Append(n, ext) : n \in base }

PickleNames == { <<Stem>>, <<Stem, ".pickle">>, <<Stem, ".pickle", ".bak">> }

\* DataFrames: named columns and rows of cells
TableOf == [t1 |-> [cols |-> <<"id", "v">>, rows |-> << <<"1", "a">> >>],
            t2 |-> [cols |-> <<"id">>,      rows |-> << <<"1">>, <<"2">> >>]]

\* dicts of sheet name -> DataFrame, in insertion order
BundleOf == [b1 |-> << <<"s1", TableOf["t1"]>> >>,
             b2 |-> << <<"s1", TableOf["t2"]>>, <<"s2", TableOf["t1"]>> >>]

\* Python values: a type tag and the atoms of the value
NoneVal == <<"None", << >> >>
ListVal(s) == <<"list", s>>
DictVal(kv) == <<"dict", kv>>
ObjectOf == [o1 |-> NoneVal, o2 |-> ListVal(<<"1", "2">>)]

\* configuration files as text: key, value, key, value, ...
ConfigTexts == { <<"seed", "1">>, <<"seed", "1", "k", "3", "seed", "2">> }

ConfigNames == { <<"config", ".yaml">>, <<"other", ".yaml">> }

ConfigFolders == { <<Dir("Config")>> }

\* os.path.dirname(__file__) of utils.py
ModuleDir == <<Dir("proj"), Dir("src")>>

(***************************************************************************)
(* os.path and the filesystem calls                                        *)
(***************************************************************************)
Up == Dir("..")

\* what the operating system resolves a path with ".." components to
RECURSIVE Resolve(_)
Resolve(p) ==
    IF p = << >> THEN << >>
    ELSE LET r == Resolve(SubSeq(p, 1, Len(p) - 1))
             c == p[Len(p)]
         IN  IF c = Up
             THEN IF r = << >> THEN << >> ELSE SubSeq(r, 1, Len(r) - 1)
             ELSE Append(r, c)

Parent(p) == SubSeq(p, 1, Len(p) - 1)

IsPrefix(p, q) == Len(p) <= Len(q) /\ SubSeq(q, 1, Len(p)) = p

NoExc == [type |-> "none", path |-> << >>]
Raise(t, p) == [type |-> t, path |-> p]

\* os.path.exists
Exists(fsys, p) == p \in fsys.dirs \/ p \in DOMAIN fsys.files

\* os.makedirs(p): creates p and its missing ancestors; raises when p exists
MakeDirs(fsys, p) ==
    IF Exists(fsys, p)
    THEN [fs |-> fsys, exc |-> Raise("FileExistsError", p)]
    ELSE IF \E k \in 1..(Len(p) - 1) : SubSeq(p, 1, k) \in DOMAIN fsys.files
    THEN [fs |-> fsys, exc |-> Raise("NotADirectoryError", p)]
    ELSE [fs |-> [fsys EXCEPT !.dirs = @ \cup { SubSeq(p, 1, k) : k \in 1..Len(p) }],
          exc |-> NoExc]

\* a handle opened without truncation
OpenWriteNoTruncate(fsys, p) ==
    IF p \in fsys.dirs
    THEN [fs |-> fsys, exc |-> Raise("IsADirectoryError", p)]
    ELSE IF Parent(p) \notin fsys.dirs
    THEN [fs |-> fsys, exc |-> Raise("FileNotFoundError", p)]
    ELSE IF p \in DOMAIN fsys.files
    THEN [fs |-> fsys, exc |-> NoExc]
    ELSE [fs |-> [fsys EXCEPT !.files = [q \in DOMAIN @ \cup {p} |->
                                            IF q = p THEN << >> ELSE @[q]]],
          exc |-> NoExc]

\* open(p, "w") / open(p, "wb"): creates the file or truncates it
OpenWrite(fsys, p) ==
    IF p \in fsys.dirs
    THEN [fs |-> fsys, exc |-> Raise("IsADirectoryError", p)]
    ELSE IF Parent(p) \notin fsys.dirs
    THEN [fs |-> fsys, exc |-> Raise("FileNotFoundError", p)]
    ELSE [fs |-> [fsys EXCEPT !.files = [q \in DOMAIN @ \cup {p} |->
                                            IF q = p THEN << >> ELSE @[q]]],
          exc |-> NoExc]

\* the buffered data of a handle opened at offset 0 reaching the file
FlushAt0(fsys, p, data) ==
    LET old == fsys.files[p]
    IN  [fsys EXCEPT !.files[p] = data \o SubSeq(old, Len(data) + 1, Len(old))]

\* open for writing, write everything, close
WriteFile(fsys, p, data) ==
    LET o == OpenWrite(fsys, p)
    IN  IF o.exc.type # "none" THEN o
        ELSE [fs |-> FlushAt0(o.fs, p, data), exc |-> NoExc]

(***************************************************************************)
(* Serialization formats                                                   *)
(***************************************************************************)
\* one line of comma-separated cells
CsvLine(cells) ==
    [i \in 1..(2 * Len(cells)) |->
        IF i % 2 = 1 THEN cells[(i + 1) \div 2]
        ELSE IF i = 2 * Len(cells) THEN "\n" ELSE ","]

RECURSIVE CsvLines(_)
CsvLines(rows) ==
    IF rows = << >> THEN << >> ELSE CsvLine(Head(rows)) \o CsvLines(Tail(rows))

\* DataFrame.to_csv(index=False): the header row, then the rows
ToCsv(df) == CsvLine(df.cols) \o CsvLines(df.rows)

\* one sheet per entry of the dict, named by its key, without the index
RECURSIVE ToExcel(_)
ToExcel(data_dict) ==
    IF data_dict = << >> THEN << >>
    ELSE <<"sheet", Head(data_dict)[1]>> \o ToCsv(Head(data_dict)[2])
         \o ToExcel(Tail(data_dict))

\* pickle.dump: the opcodes of the value, then STOP
Dumps(obj) ==
    IF obj[1] = "None" THEN <<"N", ".">>
    ELSE IF obj[2] = << >> THEN <<"]", ".">>
    ELSE <<"]", "(">>
         \o [i \in 1..(2 * Len(obj[2])) |->
                IF i % 2 = 1 THEN "K" ELSE obj[2][i \div 2]]
         \o <<"e", ".">>

\* pickle.load of well-formed bytes
Loads(b) ==
    IF b[1] = "N" THEN NoneVal
    ELSE IF Len(b) = 2 THEN ListVal(<< >>)
    ELSE ListVal([i \in 1..((Len(b) - 4) \div 2) |-> b[2 + 2 * i]])

\* d[k] = v on a dict kept as key, value, key, value, ...
DictSet(d, k, v) ==
    IF \E j \in 1..(Len(d) \div 2) : d[2 * j - 1] = k
    THEN [x \in 1..Len(d) |-> IF x % 2 = 0 /\ d[x - 1] = k THEN v ELSE d[x]]
    ELSE d \o <<k, v>>

RECURSIVE LoadMapping(_, _, _)
LoadMapping(t, i, d) ==
    IF 2 * i > Len(t) THEN d
    ELSE LoadMapping(t, i + 1, DictSet(d, t[2 * i - 1], t[2 * i]))

\* yaml.safe_load: None for an empty document, else the mapping
SafeLoad(t) == IF t = << >> THEN NoneVal ELSE DictVal(LoadMapping(t, 1, << >>))

(***************************************************************************)
(* The functions of utils.py, as outcomes [fs, ret, exc, path]             *)
(***************************************************************************)
EndsWith(name, ext) == Len(name) > 0 /\ name[Len(name)] = ext

Contains(name, ext) == \E i \in 1..Len(name) : name[i] = ext

\* variant: the suffix is appended without looking at the name
CsvFileNameAlways(file_name) == Append(file_name, ".csv")

CsvFileName(file_name) ==
    IF EndsWith(file_name, ".csv") THEN file_name ELSE Append(file_name, ".csv")

XlsxFileName(file_name) ==
    IF EndsWith(file_name, ".xlsx") THEN file_name ELSE Append(file_name, ".xlsx")

PickleFileName(filename) ==
    IF ~Contains(filename, ".pickle") THEN Append(filename, ".pickle") ELSE filename

\* variant: os.mkdir in place of os.makedirs, which needs the parent to exist
EnsureFolderMkdir(fsys, dir) ==
    IF Exists(fsys, dir) THEN [fs |-> fsys, exc |-> NoExc]
    ELSE IF Parent(dir) \notin fsys.dirs
    THEN [fs |-> fsys, exc |-> Raise("FileNotFoundError", dir)]
    ELSE [fs |-> [fsys EXCEPT !.dirs = @ \cup {dir}], exc |-> NoExc]

\* if not os.path.exists(folder): os.makedirs(folder)
EnsureFolder(fsys, dir) ==
    IF ~Exists(fsys, dir) THEN MakeDirs(fsys, dir) ELSE [fs |-> fsys, exc |-> NoExc]

Outcome(f, r, e, p) == [fs |-> f, ret |-> r, exc |-> e, path |-> p]

\* the folder of a table export: relative to the working directory
TableFolder(wd, folder) == Resolve(wd \o folder)

CsvPath(wd, file_name, folder) ==
    Resolve(wd \o folder \o <<CsvFileName(file_name)>>)

XlsxPath(wd, file_name, folder) ==
    Resolve(wd \o folder \o <<XlsxFileName(file_name)>>)

SaveDataframeToCsv(fsys, wd, df, file_name, folder) ==
    LET path == CsvPath(wd, file_name, folder)
        mk   == EnsureFolder(fsys, TableFolder(wd, folder))
        w    == WriteFile(mk.fs, path, ToCsv(df))
    IN  IF mk.exc.type # "none" THEN Outcome(mk.fs, NoneVal, mk.exc, path)
        ELSE Outcome(w.fs, NoneVal, w.exc, path)

SaveDictToExcel(fsys, wd, data_dict, file_name, folder) ==
    LET path == XlsxPath(wd, file_name, folder)
        mk   == EnsureFolder(fsys, TableFolder(wd, folder))
        w    == WriteFile(mk.fs, path, ToExcel(data_dict))
    IN  IF mk.exc.type # "none" THEN Outcome(mk.fs, NoneVal, mk.exc, path)
        ELSE Outcome(w.fs, NoneVal, w.exc, path)

\* os.path.join(os.getcwd(), "..", "Data", folder)
PickleFolder(wd, folder) == Resolve(wd \o <<Up, Dir("Data")>> \o folder)

ExportPicklePath(wd, filename, folder) ==
    Resolve(wd \o <<Up, Dir("Data")>> \o folder \o <<PickleFileName(filename)>>)

\* variant: the load looks under the working directory itself
LoadPicklePathNoUp(wd, filename, folder) ==
    Resolve(wd \o <<Dir("Data")>> \o folder \o <<PickleFileName(filename)>>)

LoadPicklePath(wd, filename, folder) ==
    Resolve(wd \o <<Up, Dir("Data")>> \o folder \o <<PickleFileName(filename)>>)

ExportToPickle(fsys, wd, object, filename, folder) ==
    LET path == ExportPicklePath(wd, filename, folder)
        mk   == EnsureFolder(fsys, PickleFolder(wd, folder))
        w    == WriteFile(mk.fs, path, Dumps(object))
    IN  IF mk.exc.type # "none" THEN Outcome(mk.fs, NoneVal, mk.exc, path)
        ELSE Outcome(w.fs, NoneVal, w.exc, path)

\* open(filepath, "rb") and pickle.load
ReadPickle(fsys, path) ==
    IF path \in fsys.dirs THEN Outcome(fsys, NoneVal, Raise("IsADirectoryError", path), path)
    ELSE IF fsys.files[path] = << >> THEN Outcome(fsys, NoneVal, Raise("EOFError", path), path)
    ELSE Outcome(fsys, Loads(fsys.files[path]), NoExc, path)

\* variant: the file is opened without the existence test
LoadPickleObjectUnchecked(fsys, wd, filename, folder) ==
    LET path == LoadPicklePath(wd, filename, folder)
    IN  IF ~Exists(fsys, path)
        THEN Outcome(fsys, NoneVal, Raise("FileNotFoundError", path), path)
        ELSE ReadPickle(fsys, path)

\* variant: the load ensures the folder as the export does
LoadPickleObjectMakedirs(fsys, wd, filename, folder) ==
    LET path == LoadPicklePath(wd, filename, folder)
        mk   == EnsureFolder(fsys, Parent(path))
    IN  IF ~Exists(mk.fs, path) THEN Outcome(mk.fs, NoneVal, NoExc, path)
        ELSE ReadPickle(mk.fs, path)

LoadPickleObject(fsys, wd, filename, folder) ==
    LET path == LoadPicklePath(wd, filename, folder)
    IN  IF ~Exists(fsys, path) THEN Outcome(fsys, NoneVal, NoExc, path)
        ELSE ReadPickle(fsys, path)

\* os.path.join(base_folder, config_folder, config_file_name)
ConfigPath(config_file_name, config_folder) ==
    Resolve(ModuleDir \o <<Up>> \o config_folder \o <<config_file_name>>)

\* variant: a missing file is reported by a None result, as the pickle loader does
ReadConfigSentinel(fsys, config_file_name, config_folder) ==
    LET path == ConfigPath(config_file_name, config_folder)
    IN  IF ~Exists(fsys, path) THEN Outcome(fsys, NoneVal, NoExc, path)
        ELSE Outcome(fsys, SafeLoad(fsys.files[path]), NoExc, path)

\* variant: a path read before is answered from memory
ReadConfigCached(fsys, config_file_name, config_folder) ==
    LET path == ConfigPath(config_file_name, config_folder)
    IN  IF path \in DOMAIN configSeen
        THEN Outcome(fsys, configSeen[path].ret, configSeen[path].exc, path)
        ELSE IF ~Exists(fsys, path)
        THEN Outcome(fsys, NoneVal, Raise("FileNotFoundError", path), path)
        ELSE Outcome(fsys, SafeLoad(fsys.files[path]), NoExc, path)

ReadConfig(fsys, config_file_name, config_folder) ==
    LET path == ConfigPath(config_file_name, config_folder)
    IN  IF ~Exists(fsys, path)
        THEN Outcome(fsys, NoneVal, Raise("FileNotFoundError", path), path)
        ELSE IF path \in fsys.dirs
        THEN Outcome(fsys, NoneVal, Raise("IsADirectoryError", path), path)
        ELSE Outcome(fsys, SafeLoad(fsys.files[path]), NoExc, path)

(***************************************************************************)
(* State machine: one caller at a time                                     *)
(***************************************************************************)
Prefixes(p) == { SubSeq(p, 1, k) : k \in 1..Len(p) }

ConfigDir == Resolve(ModuleDir \o <<Up, Dir("Config")>>)

InitDirs == UNION { Prefixes(d) : d \in Cwds \cup {ModuleDir, ConfigDir} }

EmptyMap == << >>

MapSet(m, k, v) == [q \in DOMAIN m \cup {k} |-> IF q = k THEN v ELSE m[q]]

MapDel(m, k) == [q \in DOMAIN m \ {k} |-> m[q]]

NoPrior == [seen |-> FALSE, ret |-> NoneVal, exc |-> NoExc]

\* the record of a call: its arguments, the path it resolved, and what was there
\* when it started (did the folder exist, what the file held, what read_config
\* returned for this path the time before)
Call(op, name, folder, arg, path, existed, prior) ==
    [op |-> op, name |-> name, folder |-> folder, arg |-> arg, path |-> path,
     wd |-> cwd, existed |-> existed, prior |-> prior,
     before |-> IF path \in DOMAIN fs.files THEN fs.files[path] ELSE << >>]

NoJob == [op |-> "none", name |-> << >>, folder |-> << >>]

IdleRace == /\ job = NoJob
            /\ pc = [i \in {1, 2} |-> "idle"]
            /\ writeOrder = << >>

\* the repository ships Config/config.yaml
InitFiles ==
    MapSet(EmptyMap, ConfigPath(<<"config", ".yaml">>, <<Dir("Config")>>), <<"seed", "1">>)

Init ==
    /\ fs = [dirs |-> InitDirs, files |-> InitFiles]
    /\ cwd \in Cwds
    /\ call = [op |-> "init", name |-> << >>, folder |-> << >>, arg |-> "", path |-> << >>,
               wd |-> cwd, existed |-> FALSE, prior |-> NoPrior, before |-> << >>]
    /\ ret = NoneVal
    /\ exc = NoExc
    /\ exported = EmptyMap
    /\ configSeen = EmptyMap
    /\ IdleRace

\* files written by the export functions
Artifacts(fsys) == { p \in DOMAIN fsys.files : ~IsPrefix(ConfigDir, p) }

\* the model keeps at most MaxFiles artifacts on disk
Room(fsys, path) == path \in DOMAIN fsys.files \/ Cardinality(Artifacts(fsys)) < MaxFiles

Returns(o) == /\ fs' = o.fs
              /\ ret' = o.ret
              /\ exc' = o.exc

save_dataframe_to_csv ==
    \E t \in DOMAIN TableOf, n \in TableNames(".csv"), f \in Folders :
        LET o == SaveDataframeToCsv(fs, cwd, TableOf[t], n, f)
        IN  /\ Room(fs, o.path)
            /\ Returns(o)
            /\ call' = Call("save_dataframe_to_csv", n, f, t, o.path,
                            Exists(fs, TableFolder(cwd, f)), NoPrior)
            /\ UNCHANGED <<cwd, exported, configSeen, job, pc, writeOrder>>

save_dict_to_excel ==
    \E b \in DOMAIN BundleOf, n \in TableNames(".xlsx"), f \in Folders :
        LET o == SaveDictToExcel(fs, cwd, BundleOf[b], n, f)
        IN  /\ Room(fs, o.path)
            /\ Returns(o)
            /\ call' = Call("save_dict_to_excel", n, f, b, o.path,
                            Exists(fs, TableFolder(cwd, f)), NoPrior)
            /\ UNCHANGED <<cwd, exported, configSeen, job, pc, writeOrder>>

export_to_pickle ==
    \E x \in DOMAIN ObjectOf, n \in PickleNames, f \in Folders :
        LET o == ExportToPickle(fs, cwd, ObjectOf[x], n, f)
        IN  /\ Room(fs, o.path)
            /\ Returns(o)
            /\ call' = Call("export_to_pickle", n, f, x, o.path,
                            Exists(fs, PickleFolder(cwd, f)), NoPrior)
            /\ exported' = IF o.exc.type = "none"
                           THEN MapSet(exported, o.path, ObjectOf[x])
                           ELSE exported
            /\ UNCHANGED <<cwd, configSeen, job, pc, writeOrder>>

load_pickle_object ==
    \E n \in PickleNames, f \in Folders :
        LET o == LoadPickleObject(fs, cwd, n, f)
        IN  /\ Returns(o)
            /\ call' = Call("load_pickle_object", n, f, "", o.path,
                            Exists(fs, PickleFolder(cwd, f)), NoPrior)
            /\ UNCHANGED <<cwd, exported, configSeen, job, pc, writeOrder>>

read_config ==
    \E n \in ConfigNames, cf \in ConfigFolders :
        LET o == ReadConfig(fs, n, cf)
        IN  /\ Returns(o)
            /\ call' = Call("read_config", n, cf, "", o.path, Exists(fs, Parent(o.path)),
                            IF o.path \in DOMAIN configSeen
                            THEN [seen |-> TRUE, ret |-> configSeen[o.path].ret,
                                  exc |-> configSeen[o.path].exc]
                            ELSE NoPrior)
            /\ configSeen' = MapSet(configSeen, o.path, [ret |-> o.ret, exc |-> o.exc])
            /\ UNCHANGED <<cwd, exported, job, pc, writeOrder>>

\* the environment: the notebook changes its working directory
chdir ==
    \E d \in Cwds \ {cwd} :
        /\ cwd' = d
        /\ call' = [Call("chdir", << >>, d, "", d, TRUE, NoPrior) EXCEPT !.wd = d]
        /\ ret' = NoneVal
        /\ exc' = NoExc
        /\ UNCHANGED <<fs, exported, configSeen, job, pc, writeOrder>>

\* the environment: the configuration file is written or replaced
write_config ==
    \E n \in ConfigNames, cf \in ConfigFolders, t \in ConfigTexts :
        LET path == ConfigPath(n, cf)
        IN  /\ fs' = WriteFile(fs, path, t).fs
            /\ fs' # fs
            /\ call' = Call("write_config", n, cf, "", path, TRUE, NoPrior)
            /\ ret' = NoneVal
            /\ exc' = NoExc
            /\ UNCHANGED <<cwd, exported, configSeen, job, pc, writeOrder>>

\* the environment: the configuration file is deleted
delete_config ==
    \E n \in ConfigNames, cf \in ConfigFolders :
        LET path == ConfigPath(n, cf)
        IN  /\ path \in DOMAIN fs.files
            /\ fs' = [fs EXCEPT !.files = MapDel(@, path)]
            /\ call' = Call("delete_config", n, cf, "", path, TRUE, NoPrior)
            /\ ret' = NoneVal
            /\ exc' = NoExc
            /\ UNCHANGED <<cwd, exported, configSeen, job, pc, writeOrder>>

Next ==
    \/ export_to_pickle
    \/ load_pickle_object
    \/ read_config
    \/ chdir

Spec == Init /\ [][Next]_vars

NextExport ==
    \/ save_dataframe_to_csv
    \/ save_dict_to_excel
    \/ export_to_pickle

SpecExport == Init /\ [][NextExport]_vars

NextConfig ==
    \/ read_config
    \/ write_config
    \/ delete_config

SpecConfig == Init /\ [][NextConfig]_vars

(***************************************************************************)
(* Two callers running the same export concurrently.  Each caller takes    *)
(* the steps of the function one at a time: os.path.exists, os.makedirs,   *)
(* open for writing (which truncates), and the write of its data.          *)
(***************************************************************************)
Callers == {1, 2}

RaceOps == { "save_dataframe_to_csv", "export_to_pickle" }

RaceFolder == IF job.op = "export_to_pickle" THEN PickleFolder(cwd, job.folder)
              ELSE TableFolder(cwd, job.folder)

RacePath == IF job.op = "export_to_pickle"
            THEN ExportPicklePath(cwd, job.name, job.folder)
            ELSE CsvPath(cwd, job.name, job.folder)

RaceData(i) == IF job.op = "export_to_pickle" THEN Dumps(ObjectOf[job.args[i]])
               ELSE ToCsv(TableOf[job.args[i]])

RaceJobs ==
    { [op |-> "save_dataframe_to_csv", name |-> <<Stem>>, folder |-> f, args |-> <<a, b>>] :
        f \in Folders, a \in DOMAIN TableOf, b \in DOMAIN TableOf }
    \cup
    { [op |-> "export_to_pickle", name |-> <<Stem>>, folder |-> f, args |-> <<a, b>>] :
        f \in Folders, a \in DOMAIN ObjectOf, b \in DOMAIN ObjectOf }

InitRace ==
    /\ cwd \in Cwds
    /\ job \in RaceJobs
    /\ fs \in { [dirs |-> InitDirs \cup d, files |-> InitFiles] :
                  d \in { {}, Prefixes(RaceFolder) } }
    /\ call = [op |-> "init", name |-> << >>, folder |-> << >>, arg |-> "", path |-> << >>,
               wd |-> cwd, existed |-> FALSE, prior |-> NoPrior, before |-> << >>]
    /\ ret = NoneVal
    /\ exc = NoExc
    /\ exported = EmptyMap
    /\ configSeen = EmptyMap
    /\ pc = [i \in Callers |-> "exists"]
    /\ writeOrder = << >>

\* if not os.path.exists(folder)
race_exists(i) ==
    /\ pc[i] = "exists"
    /\ pc' = [pc EXCEPT ![i] = IF Exists(fs, RaceFolder) THEN "open" ELSE "makedirs"]
    /\ UNCHANGED <<fs, cwd, call, ret, exc, exported, configSeen, job, writeOrder>>

\* os.makedirs(folder)
race_makedirs(i) ==
    /\ pc[i] = "makedirs"
    /\ LET mk == MakeDirs(fs, RaceFolder)
       IN  /\ fs' = mk.fs
           /\ exc' = IF mk.exc.type = "none" THEN exc ELSE mk.exc
           /\ pc' = [pc EXCEPT ![i] = IF mk.exc.type = "none" THEN "open" ELSE "failed"]
    /\ UNCHANGED <<cwd, call, ret, exported, configSeen, job, writeOrder>>

\* the file is opened for writing
race_open(i) ==
    /\ pc[i] = "open"
    /\ LET o == OpenWrite(fs, RacePath)
       IN  /\ fs' = o.fs
           /\ exc' = IF o.exc.type = "none" THEN exc ELSE o.exc
           /\ pc' = [pc EXCEPT ![i] = IF o.exc.type = "none" THEN "write" ELSE "failed"]
    /\ UNCHANGED <<cwd, call, ret, exported, configSeen, job, writeOrder>>

\* the data reaches the file and the call returns
race_write(i) ==
    /\ pc[i] = "write"
    /\ fs' = FlushAt0(fs, RacePath, RaceData(i))
    /\ writeOrder' = Append(writeOrder, i)
    /\ pc' = [pc EXCEPT ![i] = "done"]
    /\ UNCHANGED <<cwd, call, ret, exc, exported, configSeen, job>>

NextRace ==
    \E i \in Callers :
        \/ race_exists(i)
        \/ race_makedirs(i)
        \/ race_open(i)
        \/ race_write(i)

SpecRace == InitRace /\ [][NextRace]_vars

(***************************************************************************)
(* Properties                                                              *)
(***************************************************************************)
DataDir(wd) == Resolve(wd \o <<Up, Dir("Data")>>)

\* C1: a load of (n, f) made where an export would resolve (n, f) to a path that
\* holds a completed export, not written since, returns the exported value
\* without raising, from <cwd>/../Data/<f>/<normalized n>.
RoundTrip ==
    LET p == ExportPicklePath(call.wd, call.name, call.folder)
    IN  (call.op = "load_pickle_object" /\ p \in DOMAIN exported)
            => /\ exc.type = "none"
               /\ ret = exported[p]
               /\ call.path = p
               /\ Parent(p) = DataDir(call.wd) \o call.folder

\* C1 witness: a load has returned a pickled list, asked for under a name other
\* than the normalized one.
RoundTripWitness ==
    /\ call.op = "load_pickle_object"
    /\ call.path \in DOMAIN exported
    /\ call.name = <<Stem>>
    /\ ret = ListVal(<<"1", "2">>)

\* C2: when nothing exists at the path a load resolves, also when the folder is
\* missing, the load returns None and raises nothing.
MissingArtifact ==
    (call.op = "load_pickle_object" /\ ~Exists(fs, call.path))
        => ret = NoneVal /\ exc.type = "none"

\* C2 witness: a load of a name whose folder does not exist has returned.
MissingArtifactWitness ==
    /\ call.op = "load_pickle_object"
    /\ ~Exists(fs, call.path)
    /\ ~Exists(fs, Parent(call.path))
    /\ exported # EmptyMap

\* C7: the file name of the path resolved by export_to_pickle and by
\* load_pickle_object ends with ".pickle", whatever the name given.
PickleSuffixAlways ==
    call.op \in {"export_to_pickle", "load_pickle_object"}
        => EndsWith(call.path[Len(call.path)], ".pickle")

SameEntry(f, g, p) ==
    /\ p \in f.dirs <=> p \in g.dirs
    /\ p \in DOMAIN f.files <=> p \in DOMAIN g.files
    /\ (p \in DOMAIN f.files /\ p \in DOMAIN g.files) => f.files[p] = g.files[p]

Entries(f) == f.dirs \cup DOMAIN f.files

ExportOps == {"save_dataframe_to_csv", "save_dict_to_excel", "export_to_pickle"}

\* C10: a step of load_pickle_object or read_config leaves the filesystem as it
\* was, on every outcome; a step of an export function changes nothing but its
\* destination file and the folders on the path to it.
ReadsLeaveFilesystem ==
    [][ /\ call'.op \in {"load_pickle_object", "read_config"} => fs' = fs
        /\ call'.op \in ExportOps =>
              \A p \in Entries(fs) \cup Entries(fs') :
                  ~IsPrefix(p, call'.path) => SameEntry(fs, fs', p) ]_vars

\* C10 witness: a load of a missing artifact has returned and ../Data does not exist.
ReadsLeaveFilesystemWitness ==
    /\ call.op = "load_pickle_object"
    /\ ret = NoneVal
    /\ call.path \notin DOMAIN fs.files
    /\ DataDir(call.wd) \notin fs.dirs

DestFolder == IF call.op = "export_to_pickle" THEN DataDir(call.wd) \o call.folder
              ELSE call.wd \o call.folder

\* C4: an export whose destination folder did not exist when it started has
\* completed without raising, the folder exists and the file is in it.
FolderCreated ==
    (call.op \in ExportOps /\ ~call.existed)
        => /\ exc.type = "none"
           /\ DestFolder \in fs.dirs
           /\ call.path \in DOMAIN fs.files
           /\ Parent(call.path) = DestFolder

\* C4 witness: save_dict_to_excel has written into a nested folder that did not exist.
FolderCreatedWitness ==
    /\ call.op = "save_dict_to_excel"
    /\ ~call.existed
    /\ Len(call.folder) = 2
    /\ call.path \in DOMAIN fs.files

FreshFs == [dirs |-> InitDirs, files |-> EmptyMap]

\* C5: when save_dataframe_to_csv(t2, n, f) follows save_dataframe_to_csv(t1, n, f),
\* the file holds what exporting t2 alone into an empty folder produces, and the
\* second call adds no file.
OverwriteCsv ==
    [][ ( /\ call.op = "save_dataframe_to_csv" /\ exc.type = "none"
          /\ call'.op = "save_dataframe_to_csv"
          /\ call'.name = call.name /\ call'.folder = call.folder /\ call'.wd = call.wd )
        => /\ exc'.type = "none"
           /\ call'.path = call.path
           /\ fs'.files[call'.path] =
                 SaveDataframeToCsv(FreshFs, call'.wd, TableOf[call'.arg],
                                    call'.name, call'.folder).fs.files[call'.path]
           /\ DOMAIN fs'.files = DOMAIN fs.files ]_vars

\* C5 witness: save_dataframe_to_csv has replaced a file that held another table.
OverwriteCsvWitness ==
    /\ call.op = "save_dataframe_to_csv"
    /\ call.before # << >>
    /\ call.before # fs.files[call.path]
    /\ Len(call.before) > Len(fs.files[call.path])

TableExt == IF call.op = "save_dict_to_excel" THEN ".xlsx" ELSE ".csv"

\* C6 as stated: for every name n, the call with n and the call with n + suffix
\* both write f/n + suffix.
SuffixSamePath ==
    call.op \in {"save_dataframe_to_csv", "save_dict_to_excel"}
        => \A n \in TableNames(TableExt) :
              call.name \in {n, Append(n, TableExt)}
                  => call.path = call.wd \o call.folder \o <<Append(n, TableExt)>>

\* C6 amended: for every name n that does not already end with the suffix, the
\* call with n and the call with n + suffix both write f/n + suffix.
SuffixSamePathUnsuffixed ==
    call.op \in {"save_dataframe_to_csv", "save_dict_to_excel"}
        => \A n \in TableNames(TableExt) :
              (~EndsWith(n, TableExt) /\ call.name \in {n, Append(n, TableExt)})
                  => call.path = call.wd \o call.folder \o <<Append(n, TableExt)>>

\* C6 witness: save_dataframe_to_csv called with "report.csv" has written report.csv.
SuffixWitness ==
    /\ call.op = "save_dataframe_to_csv"
    /\ call.name = <<Stem, ".csv">>
    /\ call.path[Len(call.path)] = <<Stem, ".csv">>
    /\ call.path \in DOMAIN fs.files

\* C3: read_config of a file that does not exist raises FileNotFoundError
\* carrying the attempted path and returns no value.
MissingConfigRaises ==
    (call.op = "read_config" /\ ~Exists(fs, call.path))
        => /\ exc = Raise("FileNotFoundError", call.path)
           /\ call.path = <<Dir("proj")>> \o call.folder \o <<call.name>>
           /\ ret = NoneVal

\* C3 witness: read_config of a name that was never present has raised.
MissingConfigWitness ==
    /\ call.op = "read_config"
    /\ call.name = <<"other", ".yaml">>
    /\ ~call.prior.seen
    /\ exc.type = "FileNotFoundError"

\* C9: every read_config returns the parse of what the file holds at the time of
\* the call, and raises FileNotFoundError when the file is gone, whatever earlier
\* calls returned.
NoCaching ==
    call.op = "read_config"
        => IF call.path \in DOMAIN fs.files
           THEN exc.type = "none" /\ ret = SafeLoad(fs.files[call.path])
           ELSE exc.type = "FileNotFoundError"

\* C9 witness: read_config has returned a document that differs from the one it
\* returned for the same path the time before.
NoCachingWitness ==
    /\ call.op = "read_config"
    /\ call.prior.seen
    /\ call.prior.exc.type = "none"
    /\ exc.type = "none"
    /\ ret # call.prior.ret

Racing == job.op \in RaceOps

\* C8: of two concurrent exports to the same folder and name, neither fails, and
\* once both have returned the file holds what the last writer wrote.
LastWriterWins ==
    Racing => /\ \A i \in Callers : pc[i] # "failed"
              /\ (\A i \in Callers : pc[i] = "done")
                    => fs.files[RacePath] = RaceData(writeOrder[Len(writeOrder)])

====
